---- MODULE Spec2Model ----
(***************************************************************************)
(* Model of the gridways sketch (src/src/gridways/sketch.ts): the          *)
(* recursive grid partitioner, the line-to-rectangle converter, the        *)
(* content assigner and the timeline animation evaluator.                  *)
(*                                                                         *)
(* Numbers.  Grid coordinates are integers.  Every fractional quantity is  *)
(* held exactly as an integer numerator over a stated denominator:         *)
(*   - a draw of rand() is the midpoint (2k+1)/(2*RandCells) of cell k of  *)
(*     [0,1) cut into RandCells equal cells, held as k;                    *)
(*   - vertOrHorzRatio is a pair <<n, d>> standing for n/d;                *)
(*   - a gitter bound is a numerator over GitterDen, a gitterRatio a       *)
(*     numerator over JitDen, a pixel coordinate a numerator over PxDen.   *)
(* Indices into arrays are 1-based here and 0-based in the source.         *)
(***************************************************************************)
EXTENDS Integers, Sequences, FiniteSets, TLC

VARIABLES
    bound,            \* <<topLeft, bottomRight>> handed to the partitioner
    bias,             \* the vertOrHorzRatio of the outermost call, <<n, d>>
    stack,            \* pending work of the recursion, innermost first
    lines,            \* Line[] returned so far (in-order flattening)
    runs,             \* two partitioner runs over one seed: [stack, lines, pos] each
    tape,             \* the seed's stream of draws observed so far
    gene,             \* the configuration (Gene)
    sketchContext,    \* [width, height] of the canvas
    pc,               \* position in animate()
    lineProps,        \* per-line {gitterRatio}
    backgroundRects,  \* convertGridLinesToRects(lines, lineProps)
    rectProps,        \* per-line content assignment
    timelineAnimation,\* the root Animation
    tick,             \* the frame driver's tick
    animatedLines     \* getAnimatedLinesWithAnimations of the last frame

partVars == <<bound, bias, stack, lines>>
detVars == <<runs, tape>>
cfgVars == <<gene, sketchContext>>
geomVars == <<lineProps, backgroundRects>>
animVars == <<timelineAnimation, tick, animatedLines>>
vars == <<partVars, detVars, cfgVars, pc, geomVars, rectProps, animVars>>

----------------------------------------------------------------------------
(* Bounds of the model *)

\* number of equal cells [0,1) is cut into; a draw is the midpoint of a cell
RandCells == 4
\* largest grid extent (in units) per axis handed to the partitioner
MaxGridUnits == 4
\* largest topLeft coordinate tried for a partitioner call
MaxOrigin == 1
\* largest grid width in the two-run (same seed) specification
DetGridUnits == 3
\* number of frames driven
MaxTick == 20
\* largest start and end delay of a breath node evaluated on its own
MaxBreathDelay == 2
\* largest duration of a breath node evaluated on its own (besides 40)
MaxBreathDuration == 8
\* largest grid width in the full animate() specification
AnimGridUnits == 3
\* largest number of cells of a grid in the full animate() specification
AnimGridCells == 6
\* denominator of the gitter bounds tried: k/GitterDen for k in 0..GitterDen
GitterDen == 2

Draws == 0 .. (RandCells - 1)

----------------------------------------------------------------------------
(* Arithmetic helpers *)

RECURSIVE GCD(_, _)
GCD(a, b) == IF b = 0 THEN a ELSE GCD(b, a % b)

\* the fraction n/d in lowest terms (d > 0, n >= 0)
Frac(n, d) == LET g == GCD(n, d) IN <<n \div g, d \div g>>

----------------------------------------------------------------------------
(* The random adapter: rand = seedrandom(seed), random = randomRangeFactory *)

\* rand() > vertOrHorzRatio for the draw k, i.e. (2k+1)/(2*RandCells) > n/d
randGreaterThan(k, ratio) == (2 * k + 1) * ratio[2] > 2 * RandCells * ratio[1]

\* random(min, max, 'int') for the draw k: floor(min + u * (max - min)),
\* a uniform integer of [min, max) when min < max
randomInt(min, max, k) ==
    (2 * RandCells * min + (2 * k + 1) * (max - min)) \div (2 * RandCells)

\* random(min, max) for the draw k: min + u * (max - min), as a numerator over
\* 2 * RandCells times the denominator of min and max
randomFloat(min, max, k) == 2 * RandCells * min + (2 * k + 1) * (max - min)

----------------------------------------------------------------------------
(* Grid Partitioner: generateGridPartitioningInGridUnits *)

Call(topLeft, bottomRight, ratio) ==
    [op |-> "call", a |-> topLeft, b |-> bottomRight, ratio |-> ratio]

Emit(line) ==
    [op |-> "line", a |-> line[1], b |-> line[2], ratio |-> <<0, 1>>]

\* const ratio = !isVert ? vertOrHorzRatio / 2
\*                       : vertOrHorzRatio + (1 - vertOrHorzRatio) / 2
nextRatio(isVert, ratio) ==
    IF ~isVert THEN Frac(ratio[1], 2 * ratio[2])
    ELSE Frac(ratio[1] + ratio[2], 2 * ratio[2])

\* startPt of the cutting line, had the draw started at topLeft itself
cutStartPtFromTopLeft(topLeft, bottomRight, isVert, k) ==
    << IF isVert THEN randomInt(topLeft[1], bottomRight[1], k) ELSE topLeft[1],
       IF isVert THEN topLeft[2] ELSE randomInt(topLeft[2], bottomRight[2], k) >>

\* startPt of the cutting line, from the draw k of random(.., 'int')
cutStartPt(topLeft, bottomRight, isVert, k) ==
    << IF isVert THEN randomInt(topLeft[1] + 1, bottomRight[1], k) ELSE topLeft[1],
       IF isVert THEN topLeft[2] ELSE randomInt(topLeft[2] + 1, bottomRight[2], k) >>

cutEndPt(bottomRight, isVert, startPt) ==
    << IF isVert THEN startPt[1] ELSE bottomRight[1],
       IF isVert THEN bottomRight[2] ELSE startPt[2] >>

\* the region before the cut, had it kept the cutting line itself
topOrLeftRectOnCut(topLeft, endPt, isVert) == <<topLeft, endPt>>

topOrLeftRect(topLeft, endPt, isVert) ==
    << topLeft,
       << endPt[1] - (IF isVert THEN 1 ELSE 0),
          endPt[2] - (IF isVert THEN 0 ELSE 1) >> >>

bottomOrRightRect(startPt, bottomRight, isVert) ==
    << << startPt[1] + (IF isVert THEN 1 ELSE 0),
          startPt[2] + (IF isVert THEN 0 ELSE 1) >>,
       bottomRight >>

isRectValid(r) == r[2][1] >= r[1][1] /\ r[2][2] >= r[1][2]

\* One invocation of the function body, for the draws k1 (rand()) and k2
\* (random(.., 'int')): the work that replaces the call, in the order of the
\* returned array [...left, line, ...right].
generateGridPartitioningInGridUnits(topLeft, bottomRight, vertOrHorzRatio, k1, k2) ==
    LET dx == bottomRight[1] - topLeft[1]
        dy == bottomRight[2] - topLeft[2]
        isVert == randGreaterThan(k1, vertOrHorzRatio)
        startPt == cutStartPt(topLeft, bottomRight, isVert, k2)
        endPt == cutEndPt(bottomRight, isVert, startPt)
        tl == topOrLeftRect(topLeft, endPt, isVert)
        br == bottomOrRightRect(startPt, bottomRight, isVert)
        ratio == nextRatio(isVert, vertOrHorzRatio)
    IN  IF dx = 0 /\ dy = 0
        THEN << Emit(<<topLeft, bottomRight>>) >>
        ELSE IF (dx = 1 /\ dy = 0) \/ (dx = 0 /\ dy = 1)
        THEN << Emit(<<topLeft, topLeft>>), Emit(<<bottomRight, bottomRight>>) >>
        ELSE IF dx = 1 /\ dy = 1
        THEN IF isVert
             THEN << Emit(<<topLeft, <<bottomRight[1] - 1, bottomRight[2]>> >>),
                     Emit(<< <<topLeft[1] + 1, topLeft[2]>>, bottomRight >>) >>
             ELSE << Emit(<<topLeft, <<bottomRight[1], bottomRight[2] - 1>> >>),
                     Emit(<< <<topLeft[1], topLeft[2] + 1>>, bottomRight >>) >>
        ELSE (IF isRectValid(tl) THEN << Call(tl[1], tl[2], ratio) >> ELSE << >>)
             \o << Emit(<<startPt, endPt>>) >>
             \o (IF isRectValid(br) THEN << Call(br[1], br[2], ratio) >> ELSE << >>)

\* how many draws one invocation consumes from the generator
drawsUsed(topLeft, bottomRight) ==
    LET dx == bottomRight[1] - topLeft[1]
        dy == bottomRight[2] - topLeft[2]
    IN  IF dx = 0 /\ dy = 0 THEN 0
        ELSE IF (dx = 1 /\ dy = 0) \/ (dx = 0 /\ dy = 1) THEN 1
        ELSE IF dx = 1 /\ dy = 1 THEN 1
        ELSE 2

\* the recursion enters the innermost pending invocation
PartitionCall ==
    /\ pc = "partition"
    /\ stack # << >>
    /\ Head(stack).op = "call"
    /\ \E k1 \in Draws, k2 \in Draws :
         stack' = generateGridPartitioningInGridUnits(
                      Head(stack).a, Head(stack).b, Head(stack).ratio, k1, k2)
                  \o Tail(stack)
    /\ UNCHANGED <<bound, bias, lines, detVars, cfgVars, pc, geomVars, rectProps, animVars>>

\* a finished line takes its place in the returned array; with the last one
\* the outermost call returns
PartitionEmit ==
    /\ pc = "partition"
    /\ stack # << >>
    /\ Head(stack).op = "line"
    /\ lines' = Append(lines, <<Head(stack).a, Head(stack).b>>)
    /\ stack' = Tail(stack)
    /\ pc' = IF Tail(stack) = << >> THEN "lineProps" ELSE pc
    /\ UNCHANGED <<bound, bias, detVars, cfgVars, geomVars, rectProps, animVars>>

----------------------------------------------------------------------------
(* Rect Converter: lineProps and convertGridLinesToRects *)

\* gitterRatio and pixel denominators
JitDen == 2 * RandCells * GitterDen
PxDen == 2 * JitDen

\* 1 - random(...gitter), over JitDen
gitterRatioOf(gitter, k) == JitDen - randomFloat(gitter[1], gitter[2], k)

\* l[0][axis] * (unitSize + gap), over PxDen
nearCorner(c, unit, gap) == PxDen * c * (unit + gap)

\* the far corner, had the gap not been taken off
farCornerKeepingGap(c, gitterRatio, unit, gap) ==
    2 * (JitDen * c + gitterRatio) * (unit + gap)

\* (l[1][axis] + gitterRatio) * (unitSize + gap) - gap, over PxDen
farCorner(c, gitterRatio, unit, gap) ==
    2 * (JitDen * c + gitterRatio) * (unit + gap) - PxDen * gap

totalGridBounds(g) ==
    LET gp == g.gridPartitioning
    IN  << gp.unitSize[1] * gp.gridSizeInUnits[1] + gp.gap * (gp.gridSizeInUnits[1] - 1),
           gp.unitSize[2] * gp.gridSizeInUnits[2] + gp.gap * (gp.gridSizeInUnits[2] - 1) >>

\* (width - totalGridBounds) / 2 per axis, over PxDen
gridTopLeft(g, ctx) ==
    << JitDen * (ctx.width - totalGridBounds(g)[1]),
       JitDen * (ctx.height - totalGridBounds(g)[2]) >>

convertGridLinesToRects(g, ctx, ls, lps) ==
    LET gp == g.gridPartitioning
        topLeft == gridTopLeft(g, ctx)
    IN  [i \in 1 .. Len(ls) |->
          << << topLeft[1] + nearCorner(ls[i][1][1], gp.unitSize[1], gp.gap),
                topLeft[2] + nearCorner(ls[i][1][2], gp.unitSize[2], gp.gap) >>,
             << topLeft[1] + farCorner(ls[i][2][1], lps[i].gitterRatio[1],
                                       gp.unitSize[1], gp.gap),
                topLeft[2] + farCorner(ls[i][2][2], lps[i].gitterRatio[2],
                                       gp.unitSize[2], gp.gap) >> >>]

\* one iteration of lines.map((l) => ({gitterRatio})); after the last one
\* animate() goes on at `next`
LinePropsStep(next) ==
    /\ pc = "lineProps"
    /\ \E k1 \in Draws, k2 \in Draws :
         lineProps' = Append(lineProps,
             [gitterRatio |-> << gitterRatioOf(gene.gridLinesToRects.gitter, k1),
                                 gitterRatioOf(gene.gridLinesToRects.gitter, k2) >>])
    /\ pc' = IF Len(lineProps) + 1 = Len(lines) THEN next ELSE pc
    /\ UNCHANGED <<partVars, detVars, cfgVars, backgroundRects, rectProps, animVars>>

\* const backgroundRects = convertGridLinesToRects(lines, lineProps)
BackgroundRects ==
    /\ pc = "backgroundRects"
    /\ backgroundRects' = convertGridLinesToRects(gene, sketchContext, lines, lineProps)
    /\ pc' = "timeline"
    /\ UNCHANGED <<partVars, detVars, cfgVars, lineProps, rectProps, animVars>>

----------------------------------------------------------------------------
(* Content Assigner: rectProps *)

\* values of simplex.noise2D, in hundredths, that are tried
NoiseSamples == {-100, 0, 21, 49, 80}

Abs(x) == IF x < 0 THEN -x ELSE x

\* Math.min(Math.abs(noise) / 0.7, 0.99), over 700
colorPalleteNormalizedValue(noise) ==
    IF 10 * Abs(noise) < 693 THEN 10 * Abs(noise) ELSE 693

\* the walk, had it compared every weight with the undiminished value
RECURSIVE walkWithoutSubtracting(_, _, _)
walkWithoutSubtracting(ratios, i, v) ==
    IF i > Len(ratios) THEN -1
    ELSE IF v < 7 * ratios[i] THEN i - 1
    ELSE walkWithoutSubtracting(ratios, i + 1, v)

\* for (i ...) { if (value < ratio[i]) return i; value -= ratio[i] } return -1
\* from the i-th weight on, with value v over 700 and weights in hundredths;
\* the index returned is 0-based as in the source
RECURSIVE walkPalletesRatio(_, _, _)
walkPalletesRatio(ratios, i, v) ==
    IF i > Len(ratios) THEN -1
    ELSE IF v < 7 * ratios[i] THEN i - 1
    ELSE walkPalletesRatio(ratios, i + 1, v - 7 * ratios[i])

RECURSIVE SumTo(_, _)
SumTo(w, n) == IF n = 0 THEN 0 ELSE w[n] + SumTo(w, n - 1)

\* randomByWeights(weights) for the draw k: the 0-based index of the weight
\* interval that u * total falls into
randomByWeights(weights, k) ==
    LET total == SumTo(weights, Len(weights))
        hit == {i \in 1 .. Len(weights) :
                  (2 * k + 1) * total < 2 * RandCells * SumTo(weights, i)}
    IN  IF hit = {} THEN Len(weights) - 1
        ELSE (CHOOSE i \in hit : \A j \in hit : i <= j) - 1

\* rand() < colorSprinkleRatio (in hundredths) for the draw k
randLessThan(k, ratio) == (2 * k + 1) * 100 < 2 * RandCells * ratio

\* the values simplex.noise2D(colorPt * index) can take, given the value
\* noise it has at colorPt: the same point for index 1, the origin (where
\* simplex noise is 0) for index 0
noiseAtScaledPt(index, noise) ==
    IF index = 1 THEN {noise} ELSE IF index = 0 THEN {0} ELSE NoiseSamples

\* Math.floor(bloomMaxStartDelayInTicks * (Math.abs(noise) / 0.9))
startDelayInTicksOf(bloomMaxStartDelayInTicks, noise) ==
    (bloomMaxStartDelayInTicks * Abs(noise)) \div 90

lineIsVert(l) == l[1][1] = l[2][1]

\* breathDurationInTicksPerUnit * (length along the line's own axis + 1)
breathDurationInTicksOf(perUnit, l) ==
    perUnit * ((IF lineIsVert(l) THEN l[2][2] - l[1][2] ELSE l[2][1] - l[1][1]) + 1)

\* the entry of rectProps for line i (0-based i in zIndex), palette index
\* idx (0-based, valid) and colour draw kc; colours are indices into the
\* palette's lists.  noise and walkIndex are the iteration's locals (the
\* noise sample and the value of the palette-ratio walk), kept with the entry.
rectPropsEntry(g, l, i, idx, walkIndex, noise, noise2, kc) ==
    LET pallete == g.foreground.colorPalletes[idx + 1]
        colorIndex == randomByWeights(pallete.colorRatios, kc)
        common == [isVert |-> lineIsVert(l),
                   startDelayInTicks |->
                       startDelayInTicksOf(g.animation.bloomMaxStartDelayInTicks, noise2),
                   breathDurationInTicks |->
                       breathDurationInTicksOf(g.animation.breathDurationInTicksPerUnit, l),
                   colorPalleteIndex |-> idx,
                   walkIndex |-> walkIndex,
                   noise |-> noise]
    IN  IF pallete.type = "simple"
        THEN common @@ [fromColor |-> colorIndex, toColor |-> colorIndex,
                        tintColor |-> colorIndex, zIndex |-> i % 10]
        ELSE common @@ [fromColor |-> 0, toColor |-> 1,
                        tintColor |-> 0, zIndex |-> (i % 10) + 1]

\* let colorPalleteIndex = (() => {...})(): the walk over colorPalletesRatio
colorPalleteIndexByNoise(g, noise) ==
    walkPalletesRatio(g.foreground.colorPalletesRatio, 1,
                      colorPalleteNormalizedValue(noise))

\* if (rand() < colorSprinkleRatio) colorPalleteIndex = randomByWeights(...)
sprinkled(g, walkIndex, ks, kw) ==
    IF randLessThan(ks, g.foreground.colorSprinkleRatio)
    THEN randomByWeights(g.foreground.colorPalletesSprinkleRatio, kw)
    ELSE walkIndex

\* there is a colorPalletes[idx] to read .type of
hasPallete(g, idx) == idx >= 0 /\ idx < Len(g.foreground.colorPalletes)

\* one iteration of newArray(lines.length).map(...): reading .type of
\* colorPalletes[colorPalleteIndex] throws when there is no such palette
RectPropsStep ==
    /\ pc = "rectProps"
    /\ \E noise \in NoiseSamples, ks \in Draws, kw \in Draws, kc \in Draws :
         LET i == Len(rectProps) + 1
             walkIndex == colorPalleteIndexByNoise(gene, noise)
             idx == sprinkled(gene, walkIndex, ks, kw)
         IN  IF ~hasPallete(gene, idx)
             THEN /\ pc' = "threw"
                  /\ rectProps' = rectProps
             ELSE /\ \E noise2 \in noiseAtScaledPt(idx, noise) :
                       rectProps' = Append(rectProps,
                           rectPropsEntry(gene, lines[i], i - 1, idx, walkIndex,
                                          noise, noise2, kc))
                  /\ pc' = IF i = Len(lines) THEN "backgroundRects" ELSE pc
    /\ UNCHANGED <<partVars, detVars, cfgVars, geomVars, animVars>>

----------------------------------------------------------------------------
(* Timeline Animation Engine *)
(* A ratio is held as a term: lin p is the number p, ease p is             *)
(* easeOutElastic(p), inv p is 1 - easeOutElastic(p), p a fraction <<n,d>>  *)
(* in lowest terms.  An animated coordinate base + span * ratio is held as *)
(* [base, span, ratio], reduced to [value, 0, lin 0] when the product is   *)
(* 0 or the span itself.                                                   *)

ZERO == [k |-> "lin", p |-> <<0, 1>>]
ONE == [k |-> "lin", p |-> <<1, 1>>]

lin(p) == [k |-> "lin", p |-> p]

\* easeOutElastic(p), with easeOutElastic(0) = 0 and easeOutElastic(1) = 1
easeOutElastic(p) ==
    IF p = <<0, 1>> THEN ZERO ELSE IF p = <<1, 1>> THEN ONE
    ELSE [k |-> "ease", p |-> p]

\* 1 - easeOutElastic(p)
oneMinus(t) ==
    IF t = ZERO THEN ONE ELSE IF t = ONE THEN ZERO ELSE [k |-> "inv", p |-> t.p]

\* base + span * ratio
scaled(base, span, ratio) ==
    IF span = 0 \/ ratio = ZERO THEN [base |-> base, span |-> 0, ratio |-> ZERO]
    ELSE IF ratio = ONE THEN [base |-> base + span, span |-> 0, ratio |-> ZERO]
    ELSE [base |-> base, span |-> span, ratio |-> ratio]

\* a grid coordinate as an animated coordinate
still(x) == [base |-> x, span |-> 0, ratio |-> ZERO]

\* a grid line read as an animated line
stillLine(l) == << <<still(l[1][1]), still(l[1][2])>>, <<still(l[2][1]), still(l[2][2])>> >>

\* the pair (startRatio, endRatio), had start-expand and start-suck changed places
ratiosOfSwapped(type, proportion) ==
    IF type = "static" THEN <<ZERO, lin(proportion)>>
    ELSE IF type = "start-suck" THEN <<easeOutElastic(proportion), ONE>>
    ELSE IF type = "start-expand" THEN <<oneMinus(easeOutElastic(proportion)), ONE>>
    ELSE IF type = "end-suck" THEN <<ZERO, oneMinus(easeOutElastic(proportion))>>
    ELSE IF type = "end-expand" THEN <<ZERO, easeOutElastic(proportion)>>
    ELSE <<ZERO, ZERO>>

\* the pair (startRatio, endRatio) animateLine sets for a type
ratiosOf(type, proportion) ==
    IF type = "static" THEN <<ZERO, lin(proportion)>>
    ELSE IF type = "start-suck" THEN <<oneMinus(easeOutElastic(proportion)), ONE>>
    ELSE IF type = "start-expand" THEN <<easeOutElastic(proportion), ONE>>
    ELSE IF type = "end-suck" THEN <<ZERO, oneMinus(easeOutElastic(proportion))>>
    ELSE IF type = "end-expand" THEN <<ZERO, easeOutElastic(proportion)>>
    ELSE <<ZERO, ZERO>>

\* the returned line, had every line that is not vertical been scaled along x
applyRatiosAlongX(l, startRatio, endRatio) ==
    IF l[2][1] - l[1][1] = 0
    THEN << << still(l[1][1]), scaled(l[1][2], l[2][2] - l[1][2], startRatio) >>,
            << still(l[2][1]), scaled(l[1][2], l[2][2] - l[1][2], endRatio) >> >>
    ELSE << << scaled(l[1][1], l[2][1] - l[1][1], startRatio), still(l[1][2]) >>,
            << scaled(l[1][1], l[2][1] - l[1][1], endRatio), still(l[2][2]) >> >>

\* the line with its two endpoints moved to startRatio and endRatio of its
\* length, along the one axis it extends on; a diagonal line as it is
applyRatios(l, startRatio, endRatio) ==
    IF l[2][1] - l[1][1] = 0
    THEN << << still(l[1][1]), scaled(l[1][2], l[2][2] - l[1][2], startRatio) >>,
            << still(l[2][1]), scaled(l[1][2], l[2][2] - l[1][2], endRatio) >> >>
    ELSE IF l[2][2] - l[1][2] = 0
    THEN << << scaled(l[1][1], l[2][1] - l[1][1], startRatio), still(l[1][2]) >>,
            << scaled(l[1][1], l[2][1] - l[1][1], endRatio), still(l[2][2]) >> >>
    ELSE stillLine(l)

animateLine(l, type, proportion) ==
    applyRatios(l, ratiosOf(type, proportion)[1], ratiosOf(type, proportion)[2])

animationSequence == <<"start-expand", "start-suck", "end-suck", "end-expand">>

\* the tick of a node, had the loop not been taken off it
relativeTickUnwrapped(tk, anim) == tk

\* tick % completeTicksDuration (completeTicksDuration > 0)
relativeTickOf(tk, anim) ==
    tk % (anim.startDelayInTicks + anim.durationInTicks + anim.endDelayInTicks)

\* relativeTick >= startDelay && relativeTick < complete - endDelay
isActive(rel, anim) ==
    rel >= anim.startDelayInTicks
    /\ rel < anim.startDelayInTicks + anim.durationInTicks

\* Math.floor(relativeTickToDuration / (durationInTicks / 4)), 1-based
animationIndexOf(r, durationInTicks) == ((4 * r) \div durationInTicks) + 1

\* the proportion, had it been taken of the whole duration
proportionOfWhole(r, durationInTicks) == Frac(r, durationInTicks)

\* (relativeTickToDuration % (durationInTicks / 4)) / (durationInTicks / 4)
proportionOf(r, durationInTicks) == Frac((4 * r) % durationInTicks, durationInTicks)

mapLines(ls, type, proportion) ==
    [i \in 1 .. Len(ls) |-> animateLine(ls[i], type, proportion)]

RECURSIVE flatten(_)
flatten(groups) == IF groups = << >> THEN << >> ELSE Head(groups) \o flatten(Tail(groups))

\* the branch taken, had the pre-start hold lasted through tick startDelay
phaseOfLateStart(tk, anim) ==
    IF relativeTickOf(tk, anim) <= anim.startDelayInTicks THEN "pre-start"
    ELSE IF isActive(relativeTickOf(tk, anim), anim) THEN "active"
    ELSE "post-end"

\* the branch of getAnimatedLinesWithAnimations taken at tick tk
\* (completeTicksDuration > 0)
phaseOf(tk, anim) ==
    IF relativeTickOf(tk, anim) < anim.startDelayInTicks THEN "pre-start"
    ELSE IF isActive(relativeTickOf(tk, anim), anim) THEN "active"
    ELSE "post-end"

RECURSIVE getAnimatedLinesWithAnimations(_, _, _)
getAnimatedLinesWithAnimations(ls, tk, anim) ==
    LET completeTicksDuration ==
            anim.startDelayInTicks + anim.durationInTicks + anim.endDelayInTicks
    IN  IF completeTicksDuration = 0
        THEN [i \in 1 .. Len(ls) |-> stillLine(ls[i])]
        ELSE
        LET r == relativeTickOf(tk, anim) - anim.startDelayInTicks
        IN  IF phaseOf(tk, anim) = "pre-start"
            THEN mapLines(ls, "static", <<1, 1>>)
            ELSE IF phaseOf(tk, anim) = "active"
            THEN IF anim.type = "timeline"
                 THEN flatten([a \in 1 .. Len(anim.subAnimations) |->
                        getAnimatedLinesWithAnimations(
                            << ls[anim.subAnimations[a].props.lineIndex] >>,
                            r, anim.subAnimations[a])])
                 ELSE IF anim.type = "breath"
                 THEN mapLines(ls,
                        animationSequence[animationIndexOf(r, anim.durationInTicks)],
                        proportionOf(r, anim.durationInTicks))
                 ELSE mapLines(ls, "static", <<1, 1>>)
            ELSE mapLines(ls, "static", <<1, 1>>)

\* the largest element of a non-empty sequence (Math.max(...array))
RECURSIVE MaxOf(_)
MaxOf(q) == IF Len(q) = 1 THEN q[1]
            ELSE LET m == MaxOf(Tail(q)) IN IF q[1] >= m THEN q[1] ELSE m

\* the root's duration, had it been the longest child
durationInTicksOfLongest(rp) ==
    MaxOf([i \in 1 .. Len(rp) |-> rp[i].startDelayInTicks + rp[i].breathDurationInTicks])

\* Math.max(...startDelayInTicks) + Math.max(...breathDurationInTicks)
durationInTicksOf(rp) ==
    MaxOf([i \in 1 .. Len(rp) |-> rp[i].startDelayInTicks])
    + MaxOf([i \in 1 .. Len(rp) |-> rp[i].breathDurationInTicks])

\* the timeline, had no child been given an end delay
timelineAnimationOfNoEndDelay(g, rp) ==
    [startDelayInTicks |-> g.animation.startDelayInTicks,
     durationInTicks |-> durationInTicksOf(rp),
     endDelayInTicks |-> g.animation.endDelayInTicks,
     props |-> [lineIndex |-> 0],
     type |-> "timeline",
     subAnimations |-> [i \in 1 .. Len(rp) |->
         [startDelayInTicks |-> rp[i].startDelayInTicks,
          durationInTicks |-> rp[i].breathDurationInTicks,
          endDelayInTicks |-> 0,
          props |-> [lineIndex |-> i],
          type |-> "breath",
          subAnimations |-> << >>]]]

\* const timelineAnimation: Animation = {...}
timelineAnimationOf(g, rp) ==
    LET durationInTicks == durationInTicksOf(rp)
    IN  [startDelayInTicks |-> g.animation.startDelayInTicks,
         durationInTicks |-> durationInTicks,
         endDelayInTicks |-> g.animation.endDelayInTicks,
         props |-> [lineIndex |-> 0],
         type |-> "timeline",
         subAnimations |-> [i \in 1 .. Len(rp) |->
             [startDelayInTicks |-> rp[i].startDelayInTicks,
              durationInTicks |-> rp[i].breathDurationInTicks,
              endDelayInTicks |-> durationInTicks - rp[i].breathDurationInTicks
                                  - rp[i].startDelayInTicks,
              props |-> [lineIndex |-> i],
              type |-> "breath",
              subAnimations |-> << >>]]]

Timeline ==
    /\ pc = "timeline"
    /\ timelineAnimation' = timelineAnimationOf(gene, rectProps)
    /\ pc' = "frame"
    /\ UNCHANGED <<partVars, detVars, cfgVars, geomVars, rectProps, tick, animatedLines>>

\* regl.frame(({ tick }) => ...): one frame, the tick advancing by one
Frame ==
    /\ pc = "frame"
    /\ tick < MaxTick
    /\ animatedLines' = getAnimatedLinesWithAnimations(lines, tick, timelineAnimation)
    /\ tick' = tick + 1
    /\ UNCHANGED <<partVars, detVars, cfgVars, pc, geomVars, rectProps, timelineAnimation>>

----------------------------------------------------------------------------
(* Configurations *)

SimplePallete == [type |-> "simple", colors |-> 2, colorRatios |-> <<50, 50>>]
GradientPallete == [type |-> "gradient", colors |-> 2, colorRatios |-> << >>]

\* a Gene; ratios are in hundredths, gitter bounds over GitterDen
Gene(animation, foreground, gitter, gap, unitSize, gridSizeInUnits) ==
    [animation |-> animation,
     foreground |-> foreground,
     gridLinesToRects |-> [gitter |-> gitter],
     gridPartitioning |-> [gap |-> gap, unitSize |-> unitSize,
                           gridSizeInUnits |-> gridSizeInUnits]]

Animation0 ==
    [startDelayInTicks |-> 1, endDelayInTicks |-> 0,
     breathDurationInTicksPerUnit |-> 4, bloomMaxStartDelayInTicks |-> 2]

Foreground0 ==
    [colorPalletes |-> <<SimplePallete, GradientPallete>>,
     colorPalletesRatio |-> <<50, 50>>,
     colorSprinkleRatio |-> 1,
     colorPalletesSprinkleRatio |-> <<0, 100>>]

NoAnimation ==
    [startDelayInTicks |-> 0, durationInTicks |-> 0, endDelayInTicks |-> 0,
     props |-> [lineIndex |-> 0], type |-> "none", subAnimations |-> << >>]

IdleDet ==
    /\ runs = [r \in 1 .. 2 |-> [stack |-> << >>, lines |-> << >>, pos |-> 0]]
    /\ tape = << >>

IdleGene ==
    /\ gene = Gene(Animation0, Foreground0, <<0, 0>>, 1, <<1, 1>>, <<1, 1>>)
    /\ sketchContext = [width |-> 0, height |-> 0]

IdlePipeline ==
    /\ pc = "partition"
    /\ lineProps = << >>
    /\ backgroundRects = << >>
    /\ rectProps = << >>
    /\ timelineAnimation = NoAnimation
    /\ tick = 0
    /\ animatedLines = << >>

----------------------------------------------------------------------------
(* The partitioner on its own: any bound, any initial bias *)

Cords(lo, hi) == (lo .. hi) \X (lo .. hi)

Biases == {<<0, 1>>, <<1, 4>>, <<1, 2>>, <<3, 4>>, <<1, 1>>}

InitPartition ==
    /\ \E tl \in Cords(0, MaxOrigin), w \in 1 .. MaxGridUnits, h \in 1 .. MaxGridUnits :
         bound = <<tl, <<tl[1] + w - 1, tl[2] + h - 1>> >>
    /\ bias \in Biases
    /\ stack = << Call(bound[1], bound[2], bias) >>
    /\ lines = << >>
    /\ IdleDet /\ IdleGene /\ IdlePipeline

NextPartition == PartitionCall \/ PartitionEmit

SpecPartition == InitPartition /\ [][NextPartition]_vars

Cells(l) == (l[1][1] .. l[2][1]) \X (l[1][2] .. l[2][2])

partitionDone == stack = << >>

\* C1: when the partitioner has returned, every unit cell of the bound lies
\* on exactly one returned line and no line has a cell outside the bound.
C1_ExactCover ==
    partitionDone =>
        /\ \A c \in Cells(bound) :
             Cardinality({i \in 1 .. Len(lines) : c \in Cells(lines[i])}) = 1
        /\ \A i \in 1 .. Len(lines) :
             /\ Cells(lines[i]) # {}
             /\ Cells(lines[i]) \subseteq Cells(bound)

\* a run that went through the general case and cut a 3x3 bound into several lines
C1_Witness ==
    /\ partitionDone
    /\ bound[2][1] - bound[1][1] = 2
    /\ bound[2][2] - bound[1][2] = 2
    /\ Len(lines) >= 4
    /\ \E i \in 1 .. Len(lines) : Cardinality(Cells(lines[i])) >= 2

\* the region of a pending invocation takes the general (recursive) case
generalCase(f) ==
    LET dx == f.b[1] - f.a[1]
        dy == f.b[2] - f.a[2]
    IN  /\ f.op = "call"
        /\ ~(dx = 0 /\ dy = 0)
        /\ ~((dx = 1 /\ dy = 0) \/ (dx = 0 /\ dy = 1))
        /\ ~(dx = 1 /\ dy = 1)

\* a step of the invocation at the head of the stack, in the general case
cutting ==
    IF pc = "partition" /\ stack # << >> /\ stack' # stack
    THEN generalCase(Head(stack))
    ELSE FALSE

\* the step took the draws k1 and k2
cutsWith(k1, k2) ==
    stack' = generateGridPartitioningInGridUnits(
                 Head(stack).a, Head(stack).b, Head(stack).ratio, k1, k2)
             \o Tail(stack)

\* the axis of the cut (1 = x for a vertical line, 2 = y), the cut
\* coordinate and the two ends of the region on that axis
cutAxis(k1) == IF randGreaterThan(k1, Head(stack).ratio) THEN 1 ELSE 2
cutCoordinate(k1, k2) ==
    cutStartPt(Head(stack).a, Head(stack).b,
               randGreaterThan(k1, Head(stack).ratio), k2)[cutAxis(k1)]
cutFrom(k1) == Head(stack).a[cutAxis(k1)]
cutTo(k1) == Head(stack).b[cutAxis(k1)]

\* C14 (as stated): in the general case, for every region that reaches it
\* and either orientation, the cut coordinate lies strictly inside the
\* region along the chosen axis: topLeft < cut < bottomRight.
C14_CutStrictlyInside ==
    [][cutting => \A k1 \in Draws, k2 \in Draws :
          cutsWith(k1, k2) =>
              cutFrom(k1) < cutCoordinate(k1, k2) /\ cutCoordinate(k1, k2) < cutTo(k1)]_vars

\* C14 (amended): in the general case the cut lies strictly inside the
\* region when the region is at least three units long on the chosen axis;
\* on a region two units long the cut is on bottomRight and on a region one
\* unit long it is on topLeft = bottomRight.  The recursion goes on only
\* into sub-regions that have at least one unit.
C14_CutInsideWhenThreeLong ==
    [][cutting => \A k1 \in Draws, k2 \in Draws :
          cutsWith(k1, k2) =>
              LET c == cutCoordinate(k1, k2)
                  from == cutFrom(k1)
                  to == cutTo(k1)
              IN  /\ to - from >= 2 => (from < c /\ c < to)
                  /\ to - from = 1 => c = to
                  /\ to - from = 0 => c = from
                  /\ \A n \in 1 .. (Len(stack') - Len(stack) + 1) :
                       stack'[n].op = "call" =>
                           /\ stack'[n].b[1] >= stack'[n].a[1]
                           /\ stack'[n].b[2] >= stack'[n].a[2]]_vars

\* a bound two units wide and three high has just been cut by a vertical
\* line on its right edge: the recursion goes on into the left column only
C14_Witness ==
    /\ bound[2][1] - bound[1][1] = 1
    /\ bound[2][2] - bound[1][2] = 2
    /\ Len(stack) = 2
    /\ stack[1].op = "call"
    /\ stack[1].b = <<bound[2][1] - 1, bound[2][2]>>
    /\ stack[2].op = "line"
    /\ stack[2].a = <<bound[2][1], bound[1][2]>>
    /\ stack[2].b = bound[2]

----------------------------------------------------------------------------
(* The geometry path of animate(): partition, lineProps, backgroundRects    *)
(* (content assignment, which the converter does not read, is left out)     *)

UnitSizes == {<<1, 1>>, <<2, 3>>}
Gaps == {0, 1, 2}
Canvases == {[width |-> 40, height |-> 40], [width |-> 41, height |-> 36]}

\* gitter ranges [lo, hi] inside [0, 1], over GitterDen
GitterRanges == {g \in (0 .. GitterDen) \X (0 .. GitterDen) : g[1] <= g[2]}

\* jitter is tried on the grids of at most two cells, no jitter on all
gittersFor(w, h) == IF w * h <= 2 THEN GitterRanges ELSE {<<0, 0>>}

\* animate() calls the partitioner on [0,0]..[w-1,h-1] with the default bias
InitAnimate(g) ==
    /\ gene = g
    /\ bound = << <<0, 0>>, << g.gridPartitioning.gridSizeInUnits[1] - 1,
                              g.gridPartitioning.gridSizeInUnits[2] - 1 >> >>
    /\ bias = <<1, 2>>
    /\ stack = << Call(bound[1], bound[2], bias) >>
    /\ lines = << >>
    /\ IdleDet /\ IdlePipeline

InitRects ==
    /\ \E w \in 1 .. MaxGridUnits, h \in 1 .. MaxGridUnits :
         \E gitter \in gittersFor(w, h), gap \in Gaps, unitSize \in UnitSizes :
           InitAnimate(Gene(Animation0, Foreground0, gitter, gap, unitSize, <<w, h>>))
    /\ sketchContext \in Canvases

NextRects ==
    \/ PartitionCall
    \/ PartitionEmit
    \/ LinePropsStep("backgroundRects")
    \/ BackgroundRects

SpecRects == InitRects /\ [][NextRects]_vars

rectsDone == pc = "timeline"

zeroJitter == \A i \in 1 .. Len(lineProps) : lineProps[i].gitterRatio = <<JitDen, JitDen>>

\* two rectangles r, q lie at least d apart along some axis
apart(r, q, d) ==
    \/ r[2][1] + d <= q[1][1] \/ q[2][1] + d <= r[1][1]
    \/ r[2][2] + d <= q[1][2] \/ q[2][2] + d <= r[1][2]

Min(S) == CHOOSE x \in S : \A y \in S : x <= y
Max(S) == CHOOSE x \in S : \A y \in S : x >= y

\* C2: with zero jitter the rectangles of the partition are pairwise
\* disjoint and at least gap apart, rectangles of neighbouring cells are
\* exactly gap apart, and their bounding box is the total grid bound
\* (unitSize*gridSizeInUnits + gap*(gridSizeInUnits-1) per axis) with equal
\* margins on both sides of the canvas.
C2_Tiling ==
    (rectsDone /\ zeroJitter) =>
        LET R == backgroundRects
            N == 1 .. Len(R)
            gp == gene.gridPartitioning
            G == PxDen * gp.gap
            size == << gp.unitSize[1] * gp.gridSizeInUnits[1]
                         + gp.gap * (gp.gridSizeInUnits[1] - 1),
                       gp.unitSize[2] * gp.gridSizeInUnits[2]
                         + gp.gap * (gp.gridSizeInUnits[2] - 1) >>
            canvas == <<sketchContext.width, sketchContext.height>>
        IN  /\ Len(R) = Len(lines)
            /\ \A i \in N : R[i][1][1] < R[i][2][1] /\ R[i][1][2] < R[i][2][2]
            /\ \A i \in N, j \in N : i # j => apart(R[i], R[j], G)
            /\ \A i \in N, j \in N : \A c \in Cells(lines[i]) :
                 /\ (i # j /\ <<c[1] + 1, c[2]>> \in Cells(lines[j]))
                      => R[j][1][1] - R[i][2][1] = G
                 /\ (i # j /\ <<c[1], c[2] + 1>> \in Cells(lines[j]))
                      => R[j][1][2] - R[i][2][2] = G
            /\ \A ax \in 1 .. 2 :
                 LET lo == Min({R[i][1][ax] : i \in N})
                     hi == Max({R[i][2][ax] : i \in N})
                 IN  /\ hi - lo = PxDen * size[ax]
                     /\ lo = PxDen * canvas[ax] - hi

\* a 3x3 grid with a gap, cut into several rectangles, some longer than a unit
C2_Witness ==
    /\ rectsDone /\ zeroJitter
    /\ gene.gridPartitioning.gridSizeInUnits = <<3, 3>>
    /\ gene.gridPartitioning.gap = 2
    /\ sketchContext.width = 41
    /\ Len(backgroundRects) >= 4
    /\ \E i \in 1 .. Len(lines) : Cardinality(Cells(lines[i])) >= 2

\* C12: every rectangle returned by convertGridLinesToRects for a line of
\* the partition has bottom-right >= top-left on both axes, whatever the
\* line (zero-length ones included), the non-negative unitSize and gap, and
\* the jitter drawn from a gitter range inside [0, 1].
C12_RectsOrdered ==
    rectsDone =>
        \A i \in 1 .. Len(backgroundRects) :
            /\ backgroundRects[i][2][1] >= backgroundRects[i][1][1]
            /\ backgroundRects[i][2][2] >= backgroundRects[i][1][2]

----------------------------------------------------------------------------
(* animate(): partition, lineProps, rectProps, backgroundRects, the         *)
(* timeline and the frames                                                  *)

AnimationShort ==
    [startDelayInTicks |-> 0, endDelayInTicks |-> 1,
     breathDurationInTicksPerUnit |-> 1, bloomMaxStartDelayInTicks |-> 3]

Animations ==
    { Animation0,
      AnimationShort,
      [startDelayInTicks |-> 2, endDelayInTicks |-> 1,
       breathDurationInTicksPerUnit |-> 2, bloomMaxStartDelayInTicks |-> 2] }

Foregrounds ==
    { Foreground0,
      [colorPalletes |-> <<SimplePallete, GradientPallete>>,
       colorPalletesRatio |-> <<50, 25>>,
       colorSprinkleRatio |-> 50,
       colorPalletesSprinkleRatio |-> <<0, 100>>] }

\* every configuration on the grids of up to AnimGridUnits + 1 cells, the
\* short animation and the first foreground on the larger ones
configsFor(w, h) ==
    IF w * h <= AnimGridUnits + 1 THEN Animations \X Foregrounds
    ELSE {<<AnimationShort, Foreground0>>}

Init ==
    /\ \E w \in 1 .. AnimGridUnits, h \in 1 .. 2 :
         /\ w * h <= AnimGridCells
         /\ \E c \in configsFor(w, h) :
              InitAnimate(Gene(c[1], c[2], <<0, 0>>, 1, <<2, 3>>, <<w, h>>))
    /\ sketchContext = [width |-> 40, height |-> 40]

Next ==
    \/ PartitionCall
    \/ PartitionEmit
    \/ LinePropsStep("rectProps")
    \/ RectPropsStep
    \/ BackgroundRects
    \/ Timeline
    \/ Frame

Spec == Init /\ [][Next]_vars

completeTicksDurationOf(anim) ==
    anim.startDelayInTicks + anim.durationInTicks + anim.endDelayInTicks

framesRunning == pc = "frame"

\* C4: for the root timeline with a positive total duration, the geometry
\* at the current tick and at tick + totalDuration is the same for every line.
C4_LoopIdempotence ==
    (framesRunning /\ completeTicksDurationOf(timelineAnimation) > 0) =>
        getAnimatedLinesWithAnimations(lines, tick, timelineAnimation)
        = getAnimatedLinesWithAnimations(
              lines, tick + completeTicksDurationOf(timelineAnimation), timelineAnimation)

\* a tick inside the root's active window at which some line is mid-breath
C4_Witness ==
    /\ framesRunning
    /\ Len(lines) >= 2
    /\ phaseOf(tick, timelineAnimation) = "active"
    /\ \E i \in 1 .. Len(lines) :
         getAnimatedLinesWithAnimations(lines, tick, timelineAnimation)[i]
         # stillLine(lines[i])
    /\ tick + completeTicksDurationOf(timelineAnimation) <= MaxTick

\* the phase the intervals [0,s), [s,s+d), [s+d,s+d+e) give tick t
phaseByInterval(t, anim) ==
    LET m == t % completeTicksDurationOf(anim)
    IN  IF m < anim.startDelayInTicks THEN "pre-start"
        ELSE IF m < anim.startDelayInTicks + anim.durationInTicks THEN "active"
        ELSE "post-end"

phaseRank(ph) == IF ph = "pre-start" THEN 1 ELSE IF ph = "active" THEN 2 ELSE 3

phaseLength(anim, rank) ==
    IF rank = 1 THEN anim.startDelayInTicks
    ELSE IF rank = 2 THEN anim.durationInTicks ELSE anim.endDelayInTicks

\* from tick t to tick t + 1 the node stays in its phase or enters the next
\* non-empty one; at a wrap it enters its first non-empty phase
inSequence(t, anim) ==
    LET p == phaseRank(phaseOf(t, anim))
        q == phaseRank(phaseOf(t + 1, anim))
    IN  IF (t + 1) % completeTicksDurationOf(anim) = 0
        THEN \A k \in 1 .. (q - 1) : phaseLength(anim, k) = 0
        ELSE /\ p <= q
             /\ \A k \in (p + 1) .. (q - 1) : phaseLength(anim, k) = 0

\* the tick the root hands its children at tick t
childTick(t) ==
    relativeTickOf(t, timelineAnimation) - timelineAnimation.startDelayInTicks

\* C7: each frame advances the tick by one; the root's phase at a tick is
\* the one the intervals [0,s), [s,s+d), [s+d,s+d+e) give tick mod (s+d+e),
\* from one tick to the next it stays or moves to the next non-empty phase,
\* wrapping to the first one at s+d+e; the same holds of every child over the
\* ticks the root hands it.
C7_PhaseSequence ==
    [][ framesRunning =>
          /\ tick' = tick + 1
          /\ phaseOf(tick, timelineAnimation) = phaseByInterval(tick, timelineAnimation)
          /\ phaseOf(tick', timelineAnimation) = phaseByInterval(tick', timelineAnimation)
          /\ inSequence(tick, timelineAnimation)
          /\ \A c \in 1 .. Len(timelineAnimation.subAnimations) :
               LET child == timelineAnimation.subAnimations[c]
               IN  phaseOf(tick, timelineAnimation) = "active" =>
                     /\ phaseOf(childTick(tick), child)
                        = phaseByInterval(childTick(tick), child)
                     /\ phaseOf(tick', timelineAnimation) = "active"
                        /\ childTick(tick') = childTick(tick) + 1
                          => inSequence(childTick(tick), child)
                     /\ childTick(tick) = 0
                          => \A k \in 1 .. (phaseRank(phaseOf(0, child)) - 1) :
                               phaseLength(child, k) = 0
      ]_vars

\* the root has wrapped, all three of its phases are non-empty, and a child
\* with a start delay and an end delay of its own is mid-breath
C7_Witness ==
    /\ framesRunning
    /\ tick > completeTicksDurationOf(timelineAnimation)
    /\ timelineAnimation.startDelayInTicks > 0
    /\ timelineAnimation.endDelayInTicks > 0
    /\ phaseOf(tick, timelineAnimation) = "active"
    /\ \E c \in 1 .. Len(timelineAnimation.subAnimations) :
         LET child == timelineAnimation.subAnimations[c]
         IN  /\ child.startDelayInTicks > 0
             /\ child.endDelayInTicks > 0
             /\ phaseOf(childTick(tick), child) = "active"

subs == timelineAnimation.subAnimations

\* C8 as stated: the root's durationInTicks is the largest startDelayInTicks
\* + durationInTicks among its children.
C8_RootDurationIsLongestChild ==
    framesRunning =>
        /\ \A c \in 1 .. Len(subs) :
             subs[c].startDelayInTicks + subs[c].durationInTicks
             <= timelineAnimation.durationInTicks
        /\ \E c \in 1 .. Len(subs) :
             subs[c].startDelayInTicks + subs[c].durationInTicks
             = timelineAnimation.durationInTicks

\* C8, amended: the root's durationInTicks is the largest startDelayInTicks
\* among its children plus the largest durationInTicks among them; no child
\* ends after it, and it is the largest startDelay + duration exactly when
\* one child has both the largest start delay and the largest duration.
C8_RootDurationIsSumOfMaxima ==
    framesRunning =>
        LET S == {subs[c].startDelayInTicks : c \in 1 .. Len(subs)}
            D == {subs[c].durationInTicks : c \in 1 .. Len(subs)}
        IN  /\ timelineAnimation.durationInTicks = Max(S) + Max(D)
            /\ \A c \in 1 .. Len(subs) :
                 subs[c].startDelayInTicks + subs[c].durationInTicks
                 <= timelineAnimation.durationInTicks
            /\ (\E c \in 1 .. Len(subs) :
                  subs[c].startDelayInTicks + subs[c].durationInTicks
                  = timelineAnimation.durationInTicks)
               <=> (\E c \in 1 .. Len(subs) :
                      /\ subs[c].startDelayInTicks = Max(S)
                      /\ subs[c].durationInTicks = Max(D))

\* a timeline whose latest-starting child is not its longest-breathing one
C8_Witness ==
    /\ framesRunning
    /\ \E a \in 1 .. Len(subs), b \in 1 .. Len(subs) :
         /\ subs[a].startDelayInTicks > subs[b].startDelayInTicks
         /\ subs[a].durationInTicks < subs[b].durationInTicks
         /\ \A c \in 1 .. Len(subs) :
              /\ subs[c].startDelayInTicks <= subs[a].startDelayInTicks
              /\ subs[c].durationInTicks <= subs[b].durationInTicks
              /\ subs[c].startDelayInTicks + subs[c].durationInTicks
                 < timelineAnimation.durationInTicks

\* the 0-based index the sums r[0] + ... + r[i] give a value v over 700:
\* the smallest i with v < r[0] + ... + r[i], and -1 when there is none
indexByPrefixSums(ratios, v) ==
    LET hit == {i \in 1 .. Len(ratios) : v < 7 * SumTo(ratios, i)}
    IN  IF hit = {} THEN -1 ELSE Min(hit) - 1

\* C9: the palette index the walk gives a line is the smallest i with
\* v < r[0] + ... + r[i] for the normalized value v = min(|noise| / 0.7, 0.99)
\* and r = colorPalletesRatio, and -1 when there is none; with r = [0.5, 0.5],
\* v = 0.3 gives 0 and v = 0.7 gives 1.
C9_PalleteIndex ==
    /\ \A i \in 1 .. Len(rectProps) :
         LET n == Abs(rectProps[i].noise)
             v == IF 10 * n <= 693 THEN 10 * n ELSE 693
         IN  rectProps[i].walkIndex
             = indexByPrefixSums(gene.foreground.colorPalletesRatio, v)
    /\ gene.foreground.colorPalletesRatio = <<50, 50>> =>
         \A i \in 1 .. Len(rectProps) :
           /\ rectProps[i].noise = 21 => rectProps[i].walkIndex = 0
           /\ rectProps[i].noise = 49 => rectProps[i].walkIndex = 1

\* lines assigned index 0 (v = 0.3), index 1 (v = 0.7) and, the weights
\* summing to 0.75, the sentinel (v = 0.99)
C9_Witness ==
    \/ /\ gene.foreground.colorPalletesRatio = <<50, 50>>
       /\ \E i \in 1 .. Len(rectProps), j \in 1 .. Len(rectProps) :
            /\ rectProps[i].noise = 21 /\ rectProps[i].walkIndex = 0
            /\ rectProps[j].noise = 49 /\ rectProps[j].walkIndex = 1
    \/ /\ gene.foreground.colorPalletesRatio = <<50, 25>>
       /\ \E i \in 1 .. Len(rectProps), j \in 1 .. Len(rectProps) :
            /\ rectProps[i].walkIndex = -1
            /\ rectProps[j].walkIndex = 1

\* C10 as stated: content assignment never throws.
C10_AssignmentNeverThrows == pc # "threw"

\* the ticks the root hands a child in one loop at which the child is active
activeTicks(child) ==
    {t \in 0 .. (timelineAnimation.durationInTicks - 1) : phaseOf(t, child) = "active"}

\* the sub-phase (1..4) of a child at the tick t the root hands it
subPhaseAt(t, child) ==
    animationIndexOf(relativeTickOf(t, child) - child.startDelayInTicks,
                     child.durationInTicks)

allStill == [i \in 1 .. Len(lines) |-> stillLine(lines[i])]

----------------------------------------------------------------------------
(* getAnimatedLinesWithAnimations on a breath node of its own: the frames   *)
(* evaluate one node, of any timing, on one line                            *)

BreathLines ==
    { << <<1, 1>>, <<1, 1>> >>,      \* a dot
      << <<0, 1>>, <<2, 1>> >>,      \* horizontal
      << <<1, 0>>, <<1, 1>> >>,      \* vertical
      << <<0, 0>>, <<1, 2>> >>,      \* diagonal
      << <<2, 0>>, <<0, 1>> >> }     \* diagonal, right to left

BreathDurations == (1 .. MaxBreathDuration) \cup {40}

InitBreath ==
    /\ \E l \in BreathLines : lines = << l >>
    /\ \E s \in 0 .. MaxBreathDelay, d \in BreathDurations, e \in 0 .. MaxBreathDelay :
         timelineAnimation =
             [startDelayInTicks |-> s, durationInTicks |-> d, endDelayInTicks |-> e,
              props |-> [lineIndex |-> 1], type |-> "breath", subAnimations |-> << >>]
    /\ bound = << <<0, 0>>, <<2, 2>> >>
    /\ bias = <<1, 2>>
    /\ stack = << >>
    /\ pc = "frame"
    /\ lineProps = << >>
    /\ backgroundRects = << >>
    /\ rectProps = << >>
    /\ tick = 0
    /\ animatedLines = << >>
    /\ IdleDet /\ IdleGene

NextBreath == Frame

SpecBreath == InitBreath /\ [][NextBreath]_vars

axisAligned(l) == l[1][1] = l[2][1] \/ l[1][2] = l[2][2]

\* the geometry of the frame at tick t
frameAt(t) == getAnimatedLinesWithAnimations(lines, t, timelineAnimation)

C6_SubPhases ==
    LET a == timelineAnimation
        s == a.startDelayInTicks
        d == a.durationInTicks
        q == d \div 4
        r == ((tick - 1) % completeTicksDurationOf(a)) - s
        n == r \div q
        p == Frac(r % q, q)
        ease == IF p = <<0, 1>> THEN ZERO ELSE [k |-> "ease", p |-> p]
        inv == IF p = <<0, 1>> THEN ONE ELSE [k |-> "inv", p |-> p]
        ratios == << <<ease, ONE>>, <<inv, ONE>>, <<ZERO, inv>>, <<ZERO, ease>> >>
    IN  (a.type = "breath" /\ tick >= 1 /\ d > 0 /\ d % 4 = 0 /\ r >= 0 /\ r < d) =>
          /\ animatedLines = << applyRatios(lines[1], ratios[n + 1][1], ratios[n + 1][2]) >>
          /\ (d = 40 /\ r = 5) =>
               animatedLines
               = << applyRatios(lines[1], [k |-> "ease", p |-> <<1, 2>>], ONE) >>

\* the frame at relative tick 5 of a breath of 40 ticks on a horizontal line
\* has just been drawn
C6_Witness ==
    LET a == timelineAnimation
    IN  /\ a.type = "breath"
        /\ a.durationInTicks = 40
        /\ tick = a.startDelayInTicks + 5 + 1
        /\ lines[1] = << <<0, 1>>, <<2, 1>> >>
        /\ animatedLines[1][1][1] = [base |-> 0, span |-> 2,
                                     ratio |-> [k |-> "ease", p |-> <<1, 2>>]]
        /\ animatedLines[1][2][1] = still(2)

diagonal(l) == l[1][1] # l[2][1] /\ l[1][2] # l[2][2]

AnimateLineTypes == {"static", "start-suck", "start-expand", "end-suck", "end-expand"}

\* the proportions k/d of the breath durations tried, and 1
Proportions ==
    {Frac(k, d) : k \in 0 .. MaxBreathDuration, d \in 1 .. MaxBreathDuration} \cup {<<1, 1>>}

\* C13: animateLine returns a diagonal line (both coordinates differ between
\* start and end) unchanged for every animation type and every proportion,
\* so every frame of getAnimatedLinesWithAnimations returns it unchanged.
C13_DiagonalPassThrough ==
    diagonal(lines[1]) =>
        /\ \A type \in AnimateLineTypes, p \in Proportions :
               animateLine(lines[1], type, p) = stillLine(lines[1])
        /\ tick >= 1 => animatedLines = << stillLine(lines[1]) >>

\* a frame inside the start-suck quarter of a breath of 8 ticks, at a
\* proportion of one half, has just been drawn for a diagonal line
C13_Witness ==
    LET a == timelineAnimation
    IN  /\ a.type = "breath"
        /\ a.durationInTicks = 8
        /\ diagonal(lines[1])
        /\ tick = a.startDelayInTicks + 3 + 1
        /\ animationSequence[animationIndexOf(3, 8)] = "start-suck"
        /\ proportionOf(3, 8) = <<1, 2>>
        /\ animatedLines = << stillLine(lines[1]) >>

----------------------------------------------------------------------------
(* animate() on a malformed configuration: a zero entry in gridSizeInUnits  *)
(* or an empty colorPalletes list.  animate() validates nothing, so the     *)
(* same steps run on it.                                                    *)

\* largest entry of a grid size with a zero entry
MalformedGridUnits == 3

ZeroGrids ==
    {g \in (0 .. MalformedGridUnits) \X (0 .. MalformedGridUnits) : g[1] = 0 \/ g[2] = 0}

NoPalletes == [Foreground0 EXCEPT !.colorPalletes = << >>]

malformed(g) ==
    \/ g.gridPartitioning.gridSizeInUnits[1] = 0
    \/ g.gridPartitioning.gridSizeInUnits[2] = 0
    \/ g.foreground.colorPalletes = << >>

InitMalformed ==
    /\ \E a \in {Animation0, AnimationShort}, f \in {Foreground0, NoPalletes},
          grid \in ZeroGrids \cup {<<1, 1>>, <<2, 1>>} :
         /\ malformed(Gene(a, f, <<0, 0>>, 1, <<2, 3>>, grid))
         /\ InitAnimate(Gene(a, f, <<0, 0>>, 1, <<2, 3>>, grid))
    /\ sketchContext = [width |-> 40, height |-> 40]

SpecMalformed == InitMalformed /\ [][Next]_vars

\* C11: regeneration with a malformed configuration (a zero entry in
\* gridSizeInUnits, or an empty colorPalletes list) ends in an error before
\* any frame is rendered: it never gets past the content assignment, so no
\* rectangle list and no animation tree is produced and no frame callback
\* runs.
C11_MalformedFailsFast ==
    malformed(gene) =>
        /\ pc \in {"partition", "lineProps", "rectProps", "threw"}
        /\ backgroundRects = << >>
        /\ timelineAnimation = NoAnimation
        /\ tick = 0

----------------------------------------------------------------------------
(* animate() over the bloom delays: small grids, every                      *)
(* bloomMaxStartDelayInTicks up to MaxBloom                                 *)

\* largest bloomMaxStartDelayInTicks tried
MaxBloom == 10

InitBloom ==
    /\ \E b \in 0 .. MaxBloom, f \in Foregrounds, grid \in {<<1, 1>>, <<2, 1>>} :
         InitAnimate(Gene([startDelayInTicks |-> 1, endDelayInTicks |-> 0,
                           breathDurationInTicksPerUnit |-> 1,
                           bloomMaxStartDelayInTicks |-> b],
                          f, <<0, 0>>, 1, <<2, 3>>, grid))
    /\ sketchContext = [width |-> 40, height |-> 40]

SpecBloom == InitBloom /\ [][Next]_vars

\* C15: for every line and every noise value in [-1, 1] the assigned
\* startDelayInTicks is an integer with
\* 0 <= startDelayInTicks <= bloomMaxStartDelayInTicks.
C15_StartDelayWithinBloom ==
    \A i \in 1 .. Len(rectProps) :
        /\ rectProps[i].startDelayInTicks \in Int
        /\ rectProps[i].startDelayInTicks >= 0
        /\ rectProps[i].startDelayInTicks <= gene.animation.bloomMaxStartDelayInTicks

----------------------------------------------------------------------------
(* Two runs of the partitioner over the same seed *)

\* any value at all, whatever the seed's stream holds (the draw of an
\* unseeded generator)
fromAnywhere(t, p, k) == TRUE

\* k is what the generator seeded with this seed yields as its p-th value:
\* the value the stream t holds there, free while nobody has drawn it yet
fromSeed(t, p, k) == IF p > Len(t) THEN TRUE ELSE t[p] = k

\* the stream once its p-th value k has been drawn
drawn(t, p, k) == IF p > Len(t) THEN Append(t, k) ELSE t

RunCall(r) ==
    LET s == runs[r].stack
        pos == runs[r].pos
        used == drawsUsed(Head(s).a, Head(s).b)
    IN  /\ s # << >>
        /\ Head(s).op = "call"
        /\ \E k1 \in Draws, k2 \in Draws :
             /\ IF used >= 1 THEN fromSeed(tape, pos + 1, k1) ELSE k1 = 0
             /\ IF used >= 2 THEN fromSeed(tape, pos + 2, k2) ELSE k2 = 0
             /\ tape' = LET t1 == IF used >= 1 THEN drawn(tape, pos + 1, k1) ELSE tape
                        IN  IF used >= 2 THEN drawn(t1, pos + 2, k2) ELSE t1
             /\ runs' = [runs EXCEPT ![r] =
                    [stack |-> generateGridPartitioningInGridUnits(
                                   Head(s).a, Head(s).b, Head(s).ratio, k1, k2)
                               \o Tail(s),
                     lines |-> runs[r].lines,
                     pos |-> pos + used]]
        /\ UNCHANGED <<partVars, cfgVars, pc, geomVars, rectProps, animVars>>

RunEmit(r) ==
    LET s == runs[r].stack
    IN  /\ s # << >>
        /\ Head(s).op = "line"
        /\ runs' = [runs EXCEPT ![r] =
               [stack |-> Tail(s),
                lines |-> Append(runs[r].lines, <<Head(s).a, Head(s).b>>),
                pos |-> runs[r].pos]]
        /\ UNCHANGED <<partVars, tape, cfgVars, pc, geomVars, rectProps, animVars>>

InitDeterminism ==
    /\ \E w \in 1 .. DetGridUnits, h \in 1 .. 2 :
         bound = << <<0, 0>>, <<w - 1, h - 1>> >>
    /\ bias \in Biases
    /\ stack = << >>
    /\ lines = << >>
    /\ runs = [r \in 1 .. 2 |->
                 [stack |-> << Call(bound[1], bound[2], bias) >>,
                  lines |-> << >>, pos |-> 0]]
    /\ tape = << >>
    /\ IdleGene /\ IdlePipeline

NextDeterminism == \E r \in 1 .. 2 : RunCall(r) \/ RunEmit(r)

SpecDeterminism == InitDeterminism /\ [][NextDeterminism]_vars

runDone(r) == runs[r].stack = << >>

====
